---------------------------- MODULE Spec2Model ----------------------------
(***************************************************************************)
(* Emby-Media-Renamer: the event debouncer of monitor.py and the           *)
(* classify / plan / rename pipeline of media_renamer.py.                  *)
(*                                                                         *)
(* A name is a sequence of characters; a character is a one-character      *)
(* string, or a short token standing for one non-ASCII character:          *)
(*   "FWL" "FWR"  full-width parentheses       "DI"   ordinal prefix       *)
(*   "JI"  season suffix    "JI2" episode suffix                           *)
(*   "WEI" "ZHI"  the two characters of the unknown-year text              *)
(*   "LDA" "RDA" "LLB" "RLB"  the two CJK bracket pairs                    *)
(*   "DIAN" "YING" "SHI" "JU" "DONG" "MAN" "ZONG" "YI" "JI3" "LU" "PIAN"   *)
(*                the characters of the excluded directory names           *)
(***************************************************************************)
EXTENDS Integers, Sequences, FiniteSets, TLC

(***************************************************************************)
(* Characters and character classes of the regular expressions.            *)
(***************************************************************************)
Digs == <<"0", "1", "2", "3", "4", "5", "6", "7", "8", "9">>

Digits == {Digs[i] : i \in 1..10}

DigitVal(c) == (CHOOSE i \in 1..10 : Digs[i] = c) - 1

AsciiLetters ==
  {"a","b","c","d","e","f","g","h","i","j","k","l","m","n","o","p","q","r",
   "s","t","u","v","w","x","y","z","A","B","C","D","E","F","G","H","I","J",
   "K","L","M","N","O","P","Q","R","S","T","U","V","W","X","Y","Z"}

CjkLetters == {"DI", "JI", "JI2", "WEI", "ZHI", "DIAN", "YING", "SHI", "JU",
               "DONG", "MAN", "ZONG", "YI", "JI3", "LU", "PIAN"}

\* \s
White == {" ", "\t"}

\* \w
WordChars == AsciiLetters \cup Digits \cup CjkLetters \cup {"_"}

\* [\s\.\-_\[\]\(\)\{\}\<\>《》【】]
SepChars == White \cup {".", "-", "_", "[", "]", "(", ")", "{", "}", "<", ">",
                        "LDA", "RDA", "LLB", "RLB"}

\* absent Optional[int]
NoneInt == -1

\* absent Optional[str], and the empty string
NoStr == << >>

(***************************************************************************)
(* String helpers (str slicing, str.strip, re.search's leftmost match).    *)
(***************************************************************************)
\* s[i:] with 1-based i
Drop(s, i) == SubSeq(s, i, Len(s))

\* s[:i-1] with 1-based i
Take(s, i) == SubSeq(s, 1, i - 1)

\* the literal lit occurs in s at position i
LitAt(s, i, lit) ==
  /\ i >= 1
  /\ i + Len(lit) - 1 <= Len(s)
  /\ \A k \in 1..Len(lit) : s[i + k - 1] = lit[k]

IsDigitAt(s, i) == i >= 1 /\ i <= Len(s) /\ s[i] \in Digits

CharAt(s, i, set) == i >= 1 /\ i <= Len(s) /\ s[i] \in set

\* leftmost element of a set of match positions, 0 when there is no match
FirstPos(S) == IF S = {} THEN 0 ELSE CHOOSE i \in S : \A j \in S : i <= j

\* str.strip()
Strip(s) ==
  LET keep == {i \in 1..Len(s) : s[i] \notin White}
  IN  IF keep = {} THEN << >>
      ELSE SubSeq(s, FirstPos(keep),
                  CHOOSE i \in keep : \A j \in keep : j <= i)

\* re.sub(r'[seps]*$', '', s)
StripTrailingSeps(s) ==
  LET keep == {i \in 1..Len(s) : s[i] \notin SepChars}
  IN  IF keep = {} THEN << >>
      ELSE SubSeq(s, 1, CHOOSE i \in keep : \A j \in keep : j <= i)

\* length of the run of separator characters of s starting at position i
SepRunFrom(s, i) ==
  LET stop == {j \in i..Len(s) : s[j] \notin SepChars}
  IN  IF stop = {} THEN Len(s) - i + 1 ELSE FirstPos(stop) - i

\* int() of one or two digits
IntOf(ds) ==
  IF Len(ds) = 1 THEN DigitVal(ds[1])
  ELSE 10 * DigitVal(ds[1]) + DigitVal(ds[2])

\* str(n).zfill(2), for 0 <= n <= 99
Zfill2(n) == <<Digs[(n \div 10) + 1], Digs[(n % 10) + 1]>>

\* (\d{1,2}) at position i, greedy: the digits it captures
Digits12At(s, i) ==
  IF IsDigitAt(s, i + 1) THEN SubSeq(s, i, i + 1) ELSE SubSeq(s, i, i)

(***************************************************************************)
(* MediaInfo (media_renamer.py:14-30).                                     *)
(***************************************************************************)
MediaInfo(title, year, type, season, episode, resolution) ==
  [title |-> title, year |-> year, type |-> type, season |-> season,
   episode |-> episode, resolution |-> resolution]

\* extract_media_info's "return None"
NoInfo == [title |-> NoStr, year |-> NoStr, type |-> "none",
           season |-> NoneInt, episode |-> NoneInt, resolution |-> NoStr]

\* Python truthiness of an Optional[int]
TruthyInt(n) == n # NoneInt /\ n # 0

UnknownYear == <<"WEI", "ZHI">>

(***************************************************************************)
(* extract_episode_number (media_renamer.py:162-188).                      *)
(***************************************************************************)
\* [Ee](\d{1,2})|第(\d{1,2})集  matches at i
EpMarkerAt(s, i) ==
  \/ CharAt(s, i, {"E", "e"}) /\ IsDigitAt(s, i + 1)
  \/ /\ CharAt(s, i, {"DI"})
     /\ IsDigitAt(s, i + 1)
     /\ \/ CharAt(s, i + 2, {"JI2"})
        \/ IsDigitAt(s, i + 2) /\ CharAt(s, i + 3, {"JI2"})

\* the digits captured by that match
EpMarkerDigits(s, i) ==
  IF s[i] \in {"E", "e"} THEN Digits12At(s, i + 1)
  ELSE IF IsDigitAt(s, i + 2) /\ CharAt(s, i + 3, {"JI2"})
       THEN SubSeq(s, i + 1, i + 2)
       ELSE SubSeq(s, i + 1, i + 1)

OpenBr == {"[", "(", "FWL"}

CloseBr == {"]", ")", "FWR"}

\* [\[\(（](\d{1,2})[\]\)）]  matches at i
BracketAt(s, i) ==
  /\ CharAt(s, i, OpenBr)
  /\ IsDigitAt(s, i + 1)
  /\ \/ IsDigitAt(s, i + 2) /\ CharAt(s, i + 3, CloseBr)
     \/ CharAt(s, i + 2, CloseBr)

BracketDigits(s, i) ==
  IF IsDigitAt(s, i + 2) /\ CharAt(s, i + 3, CloseBr)
  THEN SubSeq(s, i + 1, i + 2)
  ELSE SubSeq(s, i + 1, i + 1)

\* [Ss](\d{1,2})  matches at i
SMarkerAt(s, i) == CharAt(s, i, {"S", "s"}) /\ IsDigitAt(s, i + 1)

\* [Ss] + season_str + [\. _-](\d{1,2})  matches at i
JointAt(s, i, season_str) ==
  /\ CharAt(s, i, {"S", "s"})
  /\ LitAt(s, i + 1, season_str)
  /\ CharAt(s, i + 1 + Len(season_str), {".", " ", "_", "-"})
  /\ IsDigitAt(s, i + 2 + Len(season_str))

\* (?<!\d)(\d{2})(?=\.\w+$)  matches at i
TailAt(s, i) ==
  /\ IsDigitAt(s, i) /\ IsDigitAt(s, i + 1)
  /\ ~IsDigitAt(s, i - 1)
  /\ CharAt(s, i + 2, {"."})
  /\ i + 3 <= Len(s)
  /\ \A k \in (i + 3)..Len(s) : s[k] \in WordChars

extract_episode_number(name) ==
  LET idx == 1..Len(name)
      p1 == FirstPos({i \in idx : EpMarkerAt(name, i)})
      p2 == FirstPos({i \in idx : BracketAt(name, i)})
      ps == FirstPos({i \in idx : SMarkerAt(name, i)})
      season_str == IF ps = 0 THEN << >> ELSE Digits12At(name, ps + 1)
      p3 == IF ps = 0 THEN 0
            ELSE FirstPos({i \in idx : JointAt(name, i, season_str)})
      p4 == FirstPos({i \in idx : TailAt(name, i)})
  IN  IF p1 # 0 THEN IntOf(EpMarkerDigits(name, p1))
      ELSE IF p2 # 0 THEN IntOf(BracketDigits(name, p2))
      ELSE IF p3 # 0 THEN IntOf(Digits12At(name, p3 + 2 + Len(season_str)))
      ELSE IF p4 # 0 THEN IntOf(SubSeq(name, p4, p4 + 1))
      ELSE NoneInt

(***************************************************************************)
(* extract_media_info, the deterministic rules (media_renamer.py:116-160). *)
(***************************************************************************)
\* (19|20)\d{2}  matches at i
YearAt(s, i) ==
  /\ LitAt(s, i, <<"1", "9">>) \/ LitAt(s, i, <<"2", "0">>)
  /\ IsDigitAt(s, i + 2)
  /\ IsDigitAt(s, i + 3)

\* year_match.start() + 1, or 0 when year_match is None
YearPos(name) == FirstPos({i \in 1..Len(name) : YearAt(name, i)})

\* the tokens of (1080[pP]|720[pP]|4[kK]|BluRay|WEB-DL)
TitleCutTokens ==
  {<<"1","0","8","0","p">>, <<"1","0","8","0","P">>,
   <<"7","2","0","p">>, <<"7","2","0","P">>,
   <<"4","k">>, <<"4","K">>,
   <<"B","l","u","R","a","y">>, <<"W","E","B","-","D","L">>}

\* the tokens of (1080[pP]|720[pP]|4[kK]|2160[pP]|UHD)
ResolutionTokens ==
  {<<"1","0","8","0","p">>, <<"1","0","8","0","P">>,
   <<"7","2","0","p">>, <<"7","2","0","P">>,
   <<"4","k">>, <<"4","K">>,
   <<"2","1","6","0","p">>, <<"2","1","6","0","P">>,
   <<"U","H","D">>}

TokenPos(name, tokens) ==
  FirstPos({i \in 1..Len(name) : \E t \in tokens : LitAt(name, i, t)})

\* lines 121-134
TitleOf(name) ==
  LET yp == YearPos(name)
      cut == TokenPos(name, TitleCutTokens)
  IN  IF yp > 1 THEN StripTrailingSeps(Strip(Take(name, yp)))
      ELSE IF yp = 1 THEN Strip(Drop(name, 5 + SepRunFrom(name, 5)))
      ELSE StripTrailingSeps(
             Strip(IF cut = 0 THEN name ELSE Take(name, cut)))

\* [Ss](\d{1,2})|第(\d{1,2})季  matches at i
SeasonMarkerAt(s, i) ==
  \/ SMarkerAt(s, i)
  \/ /\ CharAt(s, i, {"DI"})
     /\ IsDigitAt(s, i + 1)
     /\ \/ CharAt(s, i + 2, {"JI"})
        \/ IsDigitAt(s, i + 2) /\ CharAt(s, i + 3, {"JI"})

\* season_match.start() + 1, or 0 when season_match is None
SeasonMarkerPos(name) ==
  FirstPos({i \in 1..Len(name) : SeasonMarkerAt(name, i)})

\* int(season_match.group(1) or season_match.group(2))
SeasonMarkerNum(name) ==
  LET i == SeasonMarkerPos(name)
  IN  IF name[i] \in {"S", "s"} THEN IntOf(Digits12At(name, i + 1))
      ELSE IF IsDigitAt(name, i + 2) /\ CharAt(name, i + 3, {"JI"})
           THEN IntOf(SubSeq(name, i + 1, i + 2))
           ELSE IntOf(SubSeq(name, i + 1, i + 1))

\* line 147: "tv" if (season_match or episode_num) else "movie"
MediaType(season_found, episode_num) ==
  IF season_found \/ TruthyInt(episode_num) THEN "tv" ELSE "movie"

extract_media_info_rules(name) ==
  LET yp == YearPos(name)
      year == IF yp = 0 THEN NoStr ELSE SubSeq(name, yp, yp + 3)
      title == TitleOf(name)
      season_found == SeasonMarkerPos(name) # 0
      season_num == IF season_found THEN SeasonMarkerNum(name) ELSE 1
      episode_num == extract_episode_number(name)
      rp == TokenPos(name, ResolutionTokens)
      resolution ==
        IF rp = 0 THEN NoStr
        ELSE CHOOSE t \in ResolutionTokens : LitAt(name, rp, t)
      media_type == MediaType(season_found, episode_num)
  IN  IF title # NoStr /\ (year # NoStr \/ media_type = "tv")
      THEN MediaInfo(title,
                     IF year # NoStr THEN year ELSE UnknownYear,
                     media_type,
                     IF media_type = "tv" THEN season_num ELSE NoneInt,
                     episode_num,
                     resolution)
      ELSE NoInfo

\* lines 108-114: ai_info is the answer of ai_extract_media_info (NoInfo
\* for its None); a MediaInfo object is truthy whatever its fields hold
extract_media_info(name, ai_enabled, ai_info) ==
  IF ai_enabled /\ ai_info # NoInfo THEN ai_info
  ELSE extract_media_info_rules(name)


(***************************************************************************)
(* The rename planner: the naming lines of rename_directory                *)
(* (media_renamer.py:284-299) and rename_file (media_renamer.py:335-362).  *)
(***************************************************************************)
UpperCase == <<"A","B","C","D","E","F","G","H","I","J","K","L","M",
               "N","O","P","Q","R","S","T","U","V","W","X","Y","Z">>

LowerCase == <<"a","b","c","d","e","f","g","h","i","j","k","l","m",
               "n","o","p","q","r","s","t","u","v","w","x","y","z">>

\* str.lower()
Lower(s) ==
  [i \in 1..Len(s) |->
     IF \E k \in 1..26 : UpperCase[k] = s[i]
     THEN LowerCase[CHOOSE k \in 1..26 : UpperCase[k] = s[i]]
     ELSE s[i]]

\* SplitExt cutting at the first dot instead of the last
SplitExtAtFirstDot(base) ==
  LET dots == {i \in 1..Len(base) : base[i] = "."}
      first == IF dots = {} THEN 0
               ELSE CHOOSE i \in dots : \A j \in dots : i <= j
  IN  IF first > 1 THEN Drop(base, first) ELSE NoStr

\* os.path.splitext(base)[1]: from the last dot on, unless only dots
\* precede that dot
SplitExt(base) ==
  LET dots == {i \in 1..Len(base) : base[i] = "."}
      last == IF dots = {} THEN 0
              ELSE CHOOSE i \in dots : \A j \in dots : j <= i
  IN  IF last # 0 /\ \E k \in 1..(last - 1) : base[k] # "."
      THEN Drop(base, last)
      ELSE NoStr

\* str.endswith
EndsWith(s, suffix) ==
  /\ Len(suffix) <= Len(s)
  /\ Drop(s, Len(s) - Len(suffix) + 1) = suffix

\* f"{title}（{year}）"
TitleYear(info) == info.title \o <<"FWL">> \o info.year \o <<"FWR">>

\* str(media_info.season or 1).zfill(2)
SeasonText(info) == Zfill2(IF TruthyInt(info.season) THEN info.season ELSE 1)

\* lines 351-362: the standard file name
StandardFileName(info, ext) ==
  LET resolution_tag ==
        IF info.resolution # NoStr
        THEN <<" ", "-", " ", "[">> \o info.resolution \o <<"]">>
        ELSE NoStr
  IN  IF info.type = "movie"
      THEN TitleYear(info) \o resolution_tag \o ext
      ELSE IF TruthyInt(info.episode)
           THEN TitleYear(info) \o <<" ", "-", " ", "S">> \o SeasonText(info)
                  \o <<"E">> \o Zfill2(info.episode) \o resolution_tag \o ext
           ELSE TitleYear(info)
                  \o <<" ", "-", " ", "S", "e", "a", "s", "o", "n", " ">>
                  \o SeasonText(info) \o resolution_tag \o ext

\* lines 335-362: new_filename; ai_suggestion is the answer of
\* get_ai_naming_suggestion (NoStr for None and for the empty string)
PlanFileName(original_name, info, ai_enabled, ai_suggestion) ==
  LET ext == SplitExt(original_name)
  IN  IF /\ ai_enabled
         /\ ai_suggestion # NoStr
         /\ (EndsWith(ai_suggestion, ext) \/ \E i \in 1..Len(ai_suggestion) :
                                               ai_suggestion[i] = ".")
      THEN ai_suggestion
      ELSE StandardFileName(info, ext)

\* lines 284-299: new_dir_name
PlanDirName(dir_name, info, ai_enabled, ai_suggestion) ==
  IF ai_enabled /\ ai_suggestion # NoStr THEN ai_suggestion
  ELSE TitleYear(info)

(***************************************************************************)
(* The names the rules are run on: every concatenation of at most          *)
(* MaxFrags fragments.                                                     *)
(***************************************************************************)
MaxFrags == 4

Fragments ==
  {<<"T">>, <<".">>, <<"S">>, <<"E">>, <<"0">>, <<"3">>,
   <<"2","0","2","0">>, <<"[","0","]">>, <<".","m","k","v">>}

Concat(t) ==
  LET cat[i \in 0..Len(t)] == IF i = 0 THEN << >> ELSE cat[i - 1] \o t[i]
  IN  cat[Len(t)]

Names(max) ==
  UNION {{Concat(t) : t \in [1..n -> Fragments]} : n \in 1..max}

(***************************************************************************)
(* Paths and the file system.  A path is the sequence of the names below   *)
(* the monitored root; an entry is a file or a directory and carries the   *)
(* identity of its content.                                                *)
(***************************************************************************)
\* os.path.basename of the monitored root
RootName == <<"l", "i", "b">>

\* Config.media_exts (config.py:12)
MediaExts == {<<".", "m", "k", "v">>, <<".", "m", "p", "4">>}

\* excluded_dirs (media_renamer.py:59)
ExcludedDirs ==
  {<<"DIAN", "YING">>, <<"DIAN", "SHI", "JU">>, <<"DONG", "MAN">>,
   <<"ZONG", "YI">>, <<"JI3", "LU", "PIAN">>,
   <<"M", "o", "v", "i", "e", "s">>, <<"T", "V">>,
   <<"A", "n", "i", "m", "e">>, <<"S", "h", "o", "w", "s">>}

\* a function's "return None"
NonePath == << <<"None">> >>

\* os.path.basename
BaseName(path) == IF path = << >> THEN RootName ELSE path[Len(path)]

\* os.path.dirname
DirName(path) == IF path = << >> THEN << >> ELSE Take(path, Len(path))

\* os.path.join(dir, name)
Join(dir, nm) == Append(dir, nm)

\* os.path.exists
Exists(fs, path) == path \in DOMAIN fs

\* the entries below a directory
Below(fs, path) ==
  {q \in DOMAIN fs : Len(q) > Len(path) /\ Take(q, Len(path) + 1) = path}

\* the file system after src, with all below it, has moved to dst,
\* replacing what was at dst
Moved(fs, src, dst) ==
  LET going == {src} \cup Below(fs, src)
      gone == going \cup {dst} \cup Below(fs, dst)
      to(q) == dst \o Drop(q, Len(src) + 1)
      from(r) == CHOOSE q \in going : to(q) = r
      arrived == {to(q) : q \in going}
  IN  [r \in ((DOMAIN fs \ gone) \cup arrived) |->
         IF r \in arrived THEN fs[from(r)] ELSE fs[r]]

\* os.rename(src, dst): every outcome the call can have.  Any call may
\* raise (permission, lock, vanished source).  Onto an existing target,
\* Windows raises; POSIX replaces a file by a file and an empty directory
\* by a directory, and raises otherwise.
OsRename(fs, src, dst) ==
  LET raised == [ok |-> FALSE, fs |-> fs, replaced |-> FALSE]
      replaces ==
        /\ Exists(fs, dst)
        /\ \/ fs[src].kind = "file" /\ fs[dst].kind = "file"
           \/ /\ fs[src].kind = "dir" /\ fs[dst].kind = "dir"
              /\ Below(fs, dst) = {}
  IN  IF ~Exists(fs, src) THEN {raised}
      ELSE IF ~Exists(fs, dst)
           THEN {raised, [ok |-> TRUE, fs |-> Moved(fs, src, dst),
                          replaced |-> FALSE]}
      ELSE IF replaces
           THEN {raised, [ok |-> TRUE, fs |-> Moved(fs, src, dst),
                          replaced |-> TRUE]}
      ELSE {raised}

(***************************************************************************)
(* The naming-override service: what ai_extract_media_info                 *)
(* (media_renamer.py:190-280) and get_ai_naming_suggestion                 *)
(* (media_renamer.py:381-464) may answer.  Both catch their own errors and *)
(* answer None then.                                                       *)
(***************************************************************************)
\* MediaInfo objects built from the service's JSON (lines 263-270): one
\* with every key missing, one complete movie
AIInfos(enabled) ==
  IF enabled
  THEN {NoInfo,
        MediaInfo(NoStr, UnknownYear, "unknown", NoneInt, NoneInt, NoStr),
        MediaInfo(<<"X">>, <<"2","0","2","1">>, "movie", NoneInt, NoneInt,
                  NoStr)}
  ELSE {NoInfo}

AISuggestions(enabled) ==
  IF enabled THEN {NoStr, <<"X">>, <<"X", ".", "m", "k", "v">>}
  ELSE {NoStr}

(***************************************************************************)
(* Program constants and the bounds of the model.                          *)
(***************************************************************************)
\* the quiescence window in seconds (monitor.py:58)
Window == 2

\* join(timeout=5) (monitor.py:87)
JoinTimeout == 5

\* max_retries of rename_directory (media_renamer.py:312)
max_retries == 3

\* notifications delivered in one run
MaxNotify == 3

\* actions of other file-system actors in one run
MaxEnv == 1

\* failures raised into the queue-processing loop in one run
MaxFail == 1

Min(a, b) == IF a <= b THEN a ELSE b

(***************************************************************************)
(* State.                                                                  *)
(***************************************************************************)
VARIABLES
  event_queue,   \* MediaFileHandler.event_queue, in insertion order; an
                 \* entry is [path, is_directory, waited], waited being
                 \* time.time() - timestamp capped at Window
  running,       \* MediaFileHandler.running
  pc,            \* where the queue-processing thread, or a direct caller
                 \* of the renamer, stands
  to_process,    \* the released batch not yet dispatched
  call,          \* the frame of the process_* / rename_* call in progress
  result,        \* the frame of the last call that returned
  fs,            \* the file system: path -> [kind, id]
  ai_enabled,    \* Config.ai_enabled
  stop_pc,       \* where the caller of stop() stands
  join_waited,   \* time spent in queue_processor.join, capped
  watched,       \* the paths notifications are delivered for
  ghost,         \* per watched path: history of its notifications
  fs_expect,     \* history: the file system as it would be, had the
                 \* call in progress moved nothing
  notify_count,  \* notifications delivered so far
  env_ops,       \* actions of other file-system actors so far
  failures,      \* failures raised into the loop so far
  name,          \* the name handed to extract_media_info
  media_info,    \* the descriptor it returned
  step           \* "input" before that call, "output" after it

cascadeVars == <<name, media_info, step>>

monitorVars == <<event_queue, running, to_process, stop_pc, join_waited,
                 ghost, notify_count, failures>>

vars == <<event_queue, running, pc, to_process, call, result, fs,
          ai_enabled, stop_pc, join_waited, watched, ghost, fs_expect,
          notify_count, env_ops, failures, name, media_info, step>>

\* a fresh frame
NewCall(fn, caller, path) ==
  [fn |-> fn,                \* the function called
   caller |-> caller,        \* "consumer" (monitor.py:69,73) or "direct"
   path |-> path,            \* directory_path / file_path
   renamer |-> "none",       \* rename_directory / rename_file once invoked
   media_info |-> NoInfo,    \* the descriptor handed to it
   new_path |-> NonePath,
   retry |-> 0,
   \* history of the call
   existed |-> FALSE,        \* the path existed on entry
   classified |-> FALSE,     \* extract_media_info was run
   dir_consulted |-> FALSE,  \* ... on the containing directory's name
   file_info |-> NoInfo,     \* what the file name yielded
   dir_info |-> NoInfo,      \* what the directory name yielded
   file_episode |-> NoneInt, \* extract_episode_number(filename), line 96
   moved |-> FALSE,          \* os.rename succeeded
   replaced |-> FALSE,       \* ... and destroyed an entry at the target
   attempts |-> 0,           \* attempts of the retry loop used
   err_logged |-> FALSE,     \* logger.error was called
   second |-> FALSE,         \* a second attempt on a renamed path
   ret |-> NonePath]

IdleCall == NewCall("none", "none", NonePath)

NewGhost ==
  [notified |-> FALSE,       \* a notification has arrived
   first_flag |-> FALSE,     \* is_directory of the notification that put
                             \* the path into the pending set
   last_flag |-> FALSE,      \* is_directory of the last notification
   since_last |-> Window,    \* time since the last one, capped at Window
   after_failure |-> FALSE,  \* the last one came after a failed dispatch
   rel_first_flag |-> FALSE, \* the four above, as they were at the
   rel_last_flag |-> FALSE,  \* last release of the path
   rel_since_last |-> Window,
   rel_after_failure |-> FALSE,
   rel_count |-> 0]          \* releases since the path became pending

Pending(path) == \E i \in DOMAIN event_queue : event_queue[i].path = path


(***************************************************************************)
(* Time.  One unit is one second; every wait of the code is 1 s.           *)
(***************************************************************************)
ElapsedQueue(queue) ==
  [i \in DOMAIN queue |->
     [queue[i] EXCEPT !.waited = Min(@ + 1, Window)]]

ElapsedGhost(g) ==
  [p \in DOMAIN g |-> [g[p] EXCEPT !.since_last = Min(@ + 1, Window)]]

\* one second passes
Elapse ==
  /\ event_queue' = ElapsedQueue(event_queue)
  /\ ghost' = ElapsedGhost(ghost)
  /\ join_waited' = IF stop_pc = "joining"
                    THEN Min(join_waited + 1, JoinTimeout)
                    ELSE join_waited

\* the consumer is inside process_directory or process_file
InPipeline == pc \in {"process", "rename_check", "attempt", "move",
                      "retry_sleep"}

\* time taken by a call that blocks inside the pipeline: a file-system
\* call, or the naming service with its own retries and sleeps
\* (media_renamer.py:381-464)
Tick ==
  /\ InPipeline
  /\ Elapse
  /\ UNCHANGED <<running, pc, to_process, call, result, fs, ai_enabled,
                 stop_pc, watched, fs_expect, notify_count, env_ops,
                 failures, cascadeVars>>

(***************************************************************************)
(* MediaFileHandler (monitor.py:16-87).  The sections under queue_lock     *)
(* are single steps.                                                       *)
(***************************************************************************)
\* QueuePut as a throttle: a repeat notification leaves the timestamp of
\* the pending entry as it is
QueuePutKeepsTimestamp(queue, path, is_directory) ==
  IF \E i \in DOMAIN queue : queue[i].path = path
  THEN [i \in DOMAIN queue |->
          IF queue[i].path = path
          THEN [queue[i] EXCEPT !.is_directory = is_directory]
          ELSE queue[i]]
  ELSE Append(queue, [path |-> path, is_directory |-> is_directory,
                      waited |-> 0])

\* QueuePut that writes the timestamp only when the path is pending
QueuePutKeepsFlag(queue, path, is_directory) ==
  IF \E i \in DOMAIN queue : queue[i].path = path
  THEN [i \in DOMAIN queue |->
          IF queue[i].path = path
          THEN [queue[i] EXCEPT !.waited = 0]
          ELSE queue[i]]
  ELSE Append(queue, [path |-> path, is_directory |-> is_directory,
                      waited |-> 0])

\* lines 41-45: self.event_queue[path] = {...}; a dict keeps the place of
\* a key that is assigned again
QueuePut(queue, path, is_directory) ==
  LET entry == [path |-> path, is_directory |-> is_directory, waited |-> 0]
  IN  IF \E i \in DOMAIN queue : queue[i].path = path
      THEN [i \in DOMAIN queue |->
              IF queue[i].path = path THEN entry ELSE queue[i]]
      ELSE Append(queue, entry)

\* on_created (lines 37-45); event.src_path is a normalised path
OnCreated(path, is_directory) ==
  /\ notify_count < MaxNotify
  /\ notify_count' = notify_count + 1
  /\ event_queue' = QueuePut(event_queue, path, is_directory)
  /\ ghost' = [ghost EXCEPT ![path] =
                 [@ EXCEPT !.notified = TRUE,
                           !.first_flag = IF Pending(path) THEN @
                                          ELSE is_directory,
                           !.last_flag = is_directory,
                           !.since_last = 0,
                           !.after_failure = failures > 0,
                           !.rel_count = IF Pending(path) THEN @ ELSE 0]]
  /\ UNCHANGED <<running, pc, to_process, call, result, fs, ai_enabled,
                 stop_pc, join_waited, watched, fs_expect, env_ops,
                 failures, cascadeVars>>

\* line 49: while self.running
LoopCheck ==
  /\ pc = "loop"
  /\ pc' = IF running THEN "scan" ELSE "exited"
  /\ UNCHANGED <<event_queue, running, to_process, call, result, fs,
                 ai_enabled, stop_pc, join_waited, watched, ghost,
                 fs_expect, notify_count, env_ops, failures, cascadeVars>>

\* lines 57-59: the events that have waited the window
DueEvents(queue) == SelectSeq(queue, LAMBDA e : e.waited >= Window)

\* line 60: what del leaves in the queue
KeptEvents(queue) == SelectSeq(queue, LAMBDA e : ~(e.waited >= Window))

\* lines 52-60: one scan of the queue, under the lock
Scan ==
  /\ pc = "scan"
  /\ to_process' = DueEvents(event_queue)
  /\ event_queue' = KeptEvents(event_queue)
  /\ ghost' =
       [p \in DOMAIN ghost |->
          IF \E i \in DOMAIN to_process' : to_process'[i].path = p
          THEN [ghost[p] EXCEPT !.rel_first_flag = ghost[p].first_flag,
                                !.rel_last_flag = ghost[p].last_flag,
                                !.rel_since_last = ghost[p].since_last,
                                !.rel_after_failure = ghost[p].after_failure,
                                !.rel_count = @ + 1,
                                !.first_flag = FALSE,
                                !.last_flag = FALSE,
                                !.since_last = Window,
                                !.after_failure = FALSE]
          ELSE ghost[p]]
  /\ pc' = "batch"
  /\ UNCHANGED <<running, call, result, fs, ai_enabled, stop_pc,
                 join_waited, watched, fs_expect, notify_count, env_ops,
                 failures, cascadeVars>>

\* lines 67-73: the pipeline an event is dispatched to
Pipeline(event_info) ==
  IF event_info.is_directory THEN "process_directory" ELSE "process_file"

\* lines 63-73: the next event of the batch; line 79 when it is used up
Batch ==
  /\ pc = "batch"
  /\ IF to_process = << >>
     THEN /\ pc' = "sleep"
          /\ UNCHANGED <<to_process, call>>
     ELSE /\ to_process' = Tail(to_process)
          /\ IF ~Exists(fs, Head(to_process).path)
             THEN /\ pc' = "batch"
                  /\ UNCHANGED call
             ELSE /\ pc' = "process"
                  /\ call' = NewCall(Pipeline(Head(to_process)), "consumer",
                                     Head(to_process).path)
  /\ UNCHANGED <<event_queue, running, result, fs, ai_enabled, stop_pc,
                 join_waited, watched, ghost, fs_expect, notify_count,
                 env_ops, failures, cascadeVars>>

\* line 79: time.sleep(1)
ConsumerSleep ==
  /\ pc = "sleep"
  /\ Elapse
  /\ pc' = "loop"
  /\ UNCHANGED <<running, to_process, call, result, fs, ai_enabled, stop_pc,
                 watched, fs_expect, notify_count, env_ops, failures,
                 cascadeVars>>

\* PipelineRaises without the try of lines 50-76: the exception ends the
\* thread
PipelineRaisesEndsLoop ==
  /\ pc \in {"process", "rename_check", "attempt", "move", "retry_sleep"}
  /\ call.caller = "consumer"
  /\ failures < MaxFail
  /\ failures' = failures + 1
  /\ to_process' = << >>
  /\ call' = IdleCall
  /\ pc' = "exited"
  /\ UNCHANGED <<event_queue, running, result, fs, ai_enabled, stop_pc,
                 join_waited, watched, ghost, fs_expect, notify_count,
                 env_ops, cascadeVars>>

\* lines 75-76: an exception leaving process_directory / process_file is
\* caught in the loop; the rest of the batch is dropped with it
PipelineRaises ==
  /\ InPipeline
  /\ call.caller = "consumer"
  /\ failures < MaxFail
  /\ failures' = failures + 1
  /\ to_process' = << >>
  /\ call' = IdleCall
  /\ pc' = "sleep"
  /\ UNCHANGED <<event_queue, running, result, fs, ai_enabled, stop_pc,
                 join_waited, watched, ghost, fs_expect, notify_count,
                 env_ops, cascadeVars>>

\* stop (lines 81-87), up to the call of join
Stop ==
  /\ stop_pc = "idle"
  /\ running' = FALSE
  /\ stop_pc' = IF pc # "exited" THEN "joining" ELSE "returned"
  /\ join_waited' = 0
  /\ UNCHANGED <<event_queue, pc, to_process, call, result, fs, ai_enabled,
                 watched, ghost, fs_expect, notify_count, env_ops, failures,
                 cascadeVars>>

\* line 87: join returns when the thread has ended or the timeout is over
StopReturn ==
  /\ stop_pc = "joining"
  /\ pc = "exited" \/ join_waited >= JoinTimeout
  /\ stop_pc' = "returned"
  /\ UNCHANGED <<event_queue, running, pc, to_process, call, result, fs,
                 ai_enabled, join_waited, watched, ghost, fs_expect,
                 notify_count, env_ops, failures, cascadeVars>>


(***************************************************************************)
(* MediaRenamer (media_renamer.py:33-379).  A step holds one access to     *)
(* the file system and the computation that follows it.                    *)
(***************************************************************************)
\* the call in progress returns ret; the consumer drops what its calls
\* return (monitor.py:69 and 73)
Return(frame, ret) ==
  /\ result' = IF frame.caller = "consumer" THEN result
               ELSE [frame EXCEPT !.ret = ret]
  /\ call' = IdleCall
  /\ pc' = IF frame.caller = "consumer" THEN "batch" ELSE "idle"

\* the call in progress goes on at next
Goto(frame, next) ==
  /\ call' = frame
  /\ pc' = next
  /\ UNCHANGED result

\* lines 93-100: the descriptor taken from the directory, with the
\* episode number of the file name laid over it
Overlay(dir_info, episode_num) ==
  IF TruthyInt(episode_num)
  THEN [dir_info EXCEPT !.episode = episode_num, !.type = "tv"]
  ELSE dir_info

\* IsExcluded comparing the whole path with the names instead of the
\* base name
IsExcludedByPath(dir_name) == <<dir_name>> \in ExcludedDirs

\* line 60: the names process_directory leaves alone
IsExcluded(dir_name) == dir_name \in ExcludedDirs

\* process_directory (lines 50-71), up to the naming lines of
\* rename_directory (lines 284-303)
ProcessDirectory ==
  /\ pc = "process"
  /\ call.fn = "process_directory"
  /\ \E ai_info \in AIInfos(ai_enabled),
        ai_suggestion \in AISuggestions(ai_enabled) :
       LET dir_name == BaseName(call.path)
           info == extract_media_info(dir_name, ai_enabled, ai_info)
           entered == [call EXCEPT !.existed = TRUE]
           classed == [entered EXCEPT !.classified = TRUE,
                                      !.file_info = info]
       IN  IF ~Exists(fs, call.path)
           THEN Return([call EXCEPT !.err_logged = TRUE], NonePath)
           ELSE IF IsExcluded(dir_name)
           THEN Return(entered, call.path)
           ELSE IF info = NoInfo
           THEN Return(classed, call.path)
           ELSE Goto([classed EXCEPT
                        !.renamer = "rename_directory",
                        !.media_info = info,
                        !.new_path =
                           Join(DirName(call.path),
                                PlanDirName(dir_name, info, ai_enabled,
                                            ai_suggestion))],
                     "rename_check")
  /\ UNCHANGED <<event_queue, running, to_process, fs, ai_enabled, stop_pc,
                 join_waited, watched, ghost, fs_expect, notify_count,
                 env_ops, failures, cascadeVars>>

\* process_file (lines 73-106), up to the naming lines of rename_file
\* (lines 335-366); the directory handed in is os.path.dirname(path)
\* (monitor.py:72)
ProcessFile ==
  /\ pc = "process"
  /\ call.fn = "process_file"
  /\ \E ai_file \in AIInfos(ai_enabled), ai_dir \in AIInfos(ai_enabled),
        ai_suggestion \in AISuggestions(ai_enabled) :
       LET filename == BaseName(call.path)
           ext == SplitExt(filename)
           file_info == extract_media_info(filename, ai_enabled, ai_file)
           dir_name == BaseName(DirName(call.path))
           dir_info == extract_media_info(dir_name, ai_enabled, ai_dir)
           episode_num == extract_episode_number(filename)
           info == IF file_info # NoInfo THEN file_info
                   ELSE IF dir_info # NoInfo
                        THEN Overlay(dir_info, episode_num)
                        ELSE NoInfo
           entered == [call EXCEPT !.existed = TRUE]
           classed ==
             IF file_info # NoInfo
             THEN [entered EXCEPT !.classified = TRUE,
                                  !.file_info = file_info]
             ELSE [entered EXCEPT
                     !.classified = TRUE,
                     !.dir_consulted = TRUE,
                     !.dir_info = dir_info,
                     !.file_episode = IF dir_info # NoInfo
                                      THEN episode_num ELSE NoneInt]
       IN  IF ~Exists(fs, call.path)
           THEN Return([call EXCEPT !.err_logged = TRUE], NonePath)
           ELSE IF Lower(ext) \notin MediaExts
           THEN Return(entered, NonePath)
           ELSE IF info = NoInfo
           THEN Return(classed, call.path)
           ELSE Goto([classed EXCEPT
                        !.renamer = "rename_file",
                        !.media_info = info,
                        !.new_path =
                           Join(DirName(call.path),
                                PlanFileName(filename, info, ai_enabled,
                                             ai_suggestion))],
                     "rename_check")
  /\ UNCHANGED <<event_queue, running, to_process, fs, ai_enabled, stop_pc,
                 join_waited, watched, ghost, fs_expect, notify_count,
                 env_ops, failures, cascadeVars>>

\* lines 306 and 369: nothing to do, or the target is taken
NoRenameNeeded(files, path, new_path) ==
  path = new_path \/ Exists(files, new_path)

\* rename_directory lines 305-313, rename_file lines 368-373
RenameCheck ==
  /\ pc = "rename_check"
  /\ IF NoRenameNeeded(fs, call.path, call.new_path)
     THEN Return(call, call.path)
     ELSE IF call.renamer = "rename_file"
          THEN Goto(call, "move")
          ELSE Goto(call, "attempt")
  /\ UNCHANGED <<event_queue, running, to_process, fs, ai_enabled, stop_pc,
                 join_waited, watched, ghost, fs_expect, notify_count,
                 env_ops, failures, cascadeVars>>

\* rename_directory line 315: is the source there
AttemptCheck ==
  /\ pc = "attempt"
  /\ IF ~Exists(fs, call.path)
     THEN Goto([call EXCEPT !.attempts = @ + 1], "retry_sleep")
     ELSE Goto(call, "move")
  /\ UNCHANGED <<event_queue, running, to_process, fs, ai_enabled, stop_pc,
                 join_waited, watched, ghost, fs_expect, notify_count,
                 env_ops, failures, cascadeVars>>

\* lines 322-326 and 377-379: the path a failed os.rename leads to:
\* another attempt, or the error is logged and the call returns
RetriesLeft(frame) ==
  frame.renamer = "rename_directory" /\ frame.retry < max_retries - 1

\* FailurePath handing out the planned path
FailurePathPlanned(frame) == frame.new_path

\* what a call that has not managed to move returns
FailurePath(frame) == frame.path

\* os.rename and what follows it: rename_directory lines 319-331,
\* rename_file lines 374-379
Move ==
  /\ pc = "move"
  /\ \E o \in OsRename(fs, call.path, call.new_path) :
       LET tried == [call EXCEPT !.attempts = @ + 1]
       IN  /\ fs' = o.fs
           /\ IF o.ok
              THEN Return([tried EXCEPT !.moved = TRUE,
                                        !.replaced = o.replaced],
                          call.new_path)
              ELSE IF RetriesLeft(call)
                   THEN Goto(tried, "retry_sleep")
                   ELSE Return([tried EXCEPT !.err_logged = TRUE],
                               FailurePath(call))
  /\ UNCHANGED <<event_queue, running, to_process, ai_enabled, stop_pc,
                 join_waited, watched, ghost, fs_expect, notify_count,
                 env_ops, failures, cascadeVars>>

\* rename_directory lines 316-317 and 324: time.sleep(1), then the next
\* turn of the loop, or line 328 when the turns are used up
RetrySleep ==
  /\ pc = "retry_sleep"
  /\ Elapse
  /\ IF call.retry + 1 < max_retries
     THEN Goto([call EXCEPT !.retry = @ + 1], "attempt")
     ELSE Return([call EXCEPT !.retry = @ + 1], FailurePath(call))
  /\ UNCHANGED <<running, to_process, fs, ai_enabled, stop_pc, watched,
                 fs_expect, notify_count, env_ops, failures, cascadeVars>>

\* a second rename attempt: the renamer is called again on the path the
\* first call renamed to, with the same descriptor
RenameAgain ==
  /\ pc = "idle"
  /\ result.moved
  /\ ~result.second
  /\ \E ai_suggestion \in AISuggestions(ai_enabled) :
       LET original_name == BaseName(result.ret)
           new_name ==
             IF result.renamer = "rename_file"
             THEN PlanFileName(original_name, result.media_info,
                               ai_enabled, ai_suggestion)
             ELSE PlanDirName(original_name, result.media_info,
                              ai_enabled, ai_suggestion)
       IN  call' = [NewCall(result.renamer, "direct", result.ret) EXCEPT
                      !.renamer = result.renamer,
                      !.media_info = result.media_info,
                      !.new_path = Join(DirName(result.ret), new_name),
                      !.existed = Exists(fs, result.ret),
                      !.second = TRUE]
  /\ pc' = "rename_check"
  /\ fs_expect' = fs
  /\ UNCHANGED <<event_queue, running, to_process, result, fs, ai_enabled,
                 stop_pc, join_waited, watched, ghost, notify_count,
                 env_ops, failures, cascadeVars>>

(***************************************************************************)
(* Other actors on the file system.                                        *)
(***************************************************************************)
\* where they act: the watched paths and the target of the call
EnvPaths ==
  watched \cup (IF call.new_path # NonePath THEN {call.new_path} ELSE {})

Created(files, path, kind, id) ==
  [q \in DOMAIN files \cup {path} |->
     IF q = path THEN [kind |-> kind, id |-> id] ELSE files[q]]

Removed(files, path) ==
  [q \in DOMAIN files \ ({path} \cup Below(files, path)) |-> files[q]]

EnvCreate(path, kind) ==
  /\ env_ops < MaxEnv
  /\ ~Exists(fs, path)
  /\ (Len(path) = 1
        \/ (Exists(fs, DirName(path)) /\ fs[DirName(path)].kind = "dir"))
  /\ fs' = Created(fs, path, kind, 10 + env_ops)
  /\ fs_expect' = IF fs_expect = fs THEN fs' ELSE fs_expect
  /\ env_ops' = env_ops + 1
  /\ UNCHANGED <<event_queue, running, pc, to_process, call, result,
                 ai_enabled, stop_pc, join_waited, watched, ghost,
                 notify_count, failures, cascadeVars>>

EnvRemove(path) ==
  /\ env_ops < MaxEnv
  /\ Exists(fs, path)
  /\ fs' = Removed(fs, path)
  /\ fs_expect' = IF fs_expect = fs THEN fs' ELSE fs_expect
  /\ env_ops' = env_ops + 1
  /\ UNCHANGED <<event_queue, running, pc, to_process, call, result,
                 ai_enabled, stop_pc, join_waited, watched, ghost,
                 notify_count, failures, cascadeVars>>


(***************************************************************************)
(* Initial states and specifications.                                      *)
(***************************************************************************)
\* a directory below the root and a file in it
World(dir, file, ai) == [dir |-> dir, file |-> file, ai |-> ai]

DirPath(w) == <<w.dir>>

FilePath(w) == <<w.dir, w.file>>

\* "T2020", a movie directory, and "720pE5.mkv", a file named by its
\* episode only
MonitorWorlds ==
  {World(<<"T","2","0","2","0">>,
         <<"7","2","0","p","E","5",".","m","k","v">>, FALSE)}

PipelineDirs ==
  {<<"A",".","B","2","0","2","0">>,   \* a movie, "A.B"
   <<"T","V">>,                       \* an excluded name
   <<"T">>}                           \* nothing to go by

PipelineFiles ==
  {<<"T","2","0","2","0",".","m","k","v">>,          \* a movie
   <<"T","2","0","2","0",".","7","2","0","p",".","m","k","v">>,
                                                     \* one with resolution
   <<"7","2","0","p","E","5",".","m","k","v">>,      \* episode 5, no title
   <<"[","0","]",".","m","k","v">>,                  \* episode 0, no year
   <<"T",".","m","k","v">>,                          \* nothing to go by
   <<"T","2","0","2","0",".","t","x","t">>}          \* not a media file

PipelineWorlds ==
  {World(d, f, ai) : d \in PipelineDirs, f \in PipelineFiles,
                     ai \in BOOLEAN}

InitWorld(w) ==
  /\ event_queue = << >>
  /\ running = TRUE
  /\ to_process = << >>
  /\ result = IdleCall
  /\ fs = [q \in {DirPath(w), FilePath(w)} |->
             IF q = DirPath(w) THEN [kind |-> "dir", id |-> 1]
             ELSE [kind |-> "file", id |-> 2]]
  /\ fs_expect = fs
  /\ ai_enabled = w.ai
  /\ stop_pc = "idle"
  /\ join_waited = 0
  /\ watched = {DirPath(w), FilePath(w)}
  /\ ghost = [q \in watched |-> NewGhost]
  /\ notify_count = 0
  /\ env_ops = 0
  /\ failures = 0

NoCascade ==
  /\ name = << >>
  /\ media_info = NoInfo
  /\ step = "idle"

\* the monitor as start_monitoring sets it up (monitor.py:105)
Init ==
  /\ \E w \in MonitorWorlds : InitWorld(w)
  /\ pc = "loop"
  /\ call = IdleCall
  /\ NoCascade

RenamerNext ==
  \/ ProcessDirectory
  \/ ProcessFile
  \/ RenameCheck
  \/ AttemptCheck
  \/ Move
  \/ RetrySleep

EnvNext ==
  \/ \E path \in EnvPaths, kind \in {"file", "dir"} : EnvCreate(path, kind)
  \/ \E path \in EnvPaths : EnvRemove(path)

Next ==
  \/ \E path \in watched, is_directory \in BOOLEAN :
       OnCreated(path, is_directory)
  \/ LoopCheck
  \/ Scan
  \/ Batch
  \/ ConsumerSleep
  \/ PipelineRaises
  \/ Stop
  \/ StopReturn
  \/ Tick
  \/ RenamerNext

Spec == Init /\ [][Next]_vars

\* process_directory / process_file called on a path, as the consumer
\* calls them, with other actors on the file system
InitPipeline ==
  /\ \E w \in PipelineWorlds :
       /\ InitWorld(w)
       /\ call \in {NewCall("process_directory", "direct", DirPath(w)),
                    NewCall("process_file", "direct", FilePath(w))}
  /\ pc = "process"
  /\ NoCascade

NextPipeline ==
  \/ RenamerNext
  \/ RenameAgain
  \/ EnvNext

SpecPipeline == InitPipeline /\ [][NextPipeline]_vars

\* extract_media_info called on a name
InitCascade ==
  /\ InitWorld(CHOOSE w \in MonitorWorlds : TRUE)
  /\ pc = "none"
  /\ call = IdleCall
  /\ name \in Names(MaxFrags)
  /\ media_info = NoInfo
  /\ step = "input"

\* one call of extract_media_info, the naming override disabled
ExtractMediaInfo ==
  /\ step = "input"
  /\ media_info' = extract_media_info(name, FALSE, NoInfo)
  /\ step' = "output"
  /\ UNCHANGED <<event_queue, running, pc, to_process, call, result, fs,
                 ai_enabled, stop_pc, join_waited, watched, ghost,
                 fs_expect, notify_count, env_ops, failures, name>>

NextCascade == ExtractMediaInfo

SpecCascade == InitCascade /\ [][NextCascade]_vars


(***************************************************************************)
(* Claims.                                                                 *)
(***************************************************************************)
\* C8: for every name the rules give a descriptor for, the kind is tv
\* exactly when a season marker or an episode number (any value, 0
\* included) was found in the name, and movie otherwise; a tv descriptor's
\* season is the marker's number when there is a marker and 1 otherwise; a
\* movie descriptor has no season.
C8_KindAndSeason ==
  (step = "output" /\ media_info # NoInfo) =>
    LET marker == SeasonMarkerPos(name) # 0
        found == marker \/ extract_episode_number(name) # NoneInt
    IN  /\ media_info.type = (IF found THEN "tv" ELSE "movie")
        /\ media_info.type = "tv" =>
             media_info.season = (IF marker THEN SeasonMarkerNum(name)
                                  ELSE 1)
        /\ media_info.type = "movie" => media_info.season = NoneInt


\* C1, what holds in every state: notifications less than a window apart
\* fall into one stay of p in the pending set; p is released exactly once
\* per stay (not yet while it is pending, once when it has left); and a
\* release of p never comes earlier than one full window after the last
\* notification for p.
C1_ReleaseOnceAfterWindow ==
  \A p \in watched :
    /\ (ghost[p].notified /\ ghost[p].since_last < Window) => Pending(p)
    /\ ghost[p].notified =>
         ghost[p].rel_count = (IF Pending(p) THEN 0 ELSE 1)
    /\ ghost[p].rel_since_last >= Window

\* C1, what every scan does: a pending path whose last notification is a
\* full window old is released by it.
C1_ScanReleasesDue ==
  (pc = "scan" /\ pc' = "batch") =>
    \A p \in watched :
      (Pending(p) /\ ghost[p].since_last >= Window) =>
        /\ \E i \in DOMAIN to_process' : to_process'[i].path = p
        /\ \A i \in DOMAIN event_queue' : event_queue'[i].path # p

\* C1: any number of notifications for p less than a window apart, each
\* resetting the wait, lead to exactly one release of p, not earlier than
\* one full window after the last of them; the release is made by the
\* first scan that finds the last notification a full window old.
C1_Debounce ==
  /\ []C1_ReleaseOnceAfterWindow
  /\ [][C1_ScanReleasesDue]_vars

\* C1 witness: a path notified more than once during one stay in the
\* pending set (with different flags) has been released, once.
C1_Witness ==
  \E p \in watched :
    /\ notify_count >= 2
    /\ ~Pending(p)
    /\ ghost[p].rel_count = 1
    /\ ghost[p].rel_first_flag # ghost[p].rel_last_flag

\* C7: the loop of _process_queue ends in one way only, the test of line
\* 49 finding the stop flag set; a failure raised while a released path is
\* classified or renamed leaves the thread in its loop, at the sleep of
\* line 79.
C7_LoopEndsOnStopOnly ==
  /\ (pc # "exited" /\ pc' = "exited") => (pc = "loop" /\ ~running)
  /\ failures' > failures => pc' = "sleep"

\* C7: while the stop flag is not set the loop of _process_queue has not
\* ended, whatever failures were raised while released paths were
\* classified or renamed; each failure leaves the thread in its loop.
C7_SurvivesFailures ==
  /\ [](pc = "exited" => ~running)
  /\ [][C7_LoopEndsOnStopOnly]_vars

\* C7 witness: after a failed dispatch, with the stop flag not set, a path
\* notified after the failure is released and dispatched.
C7_Witness ==
  /\ failures > 0
  /\ running
  /\ pc = "process"
  /\ call.caller = "consumer"
  /\ ghost[call.path].rel_after_failure

\* C10 as stated: a released path is dispatched by the flag of the first
\* notification of its stay in the pending set.
C10_DispatchByFirstFlag ==
  (pc = "process" /\ call.caller = "consumer") =>
    (call.fn = "process_directory" <=> ghost[call.path].rel_first_flag)

\* C10, amended: a released path is dispatched by the flag of the last
\* notification before its release.
C10_DispatchByLastFlag ==
  (pc = "process" /\ call.caller = "consumer") =>
    (call.fn = "process_directory" <=> ghost[call.path].rel_last_flag)

\* C10 witness: a path dispatched to the file pipeline whose first
\* notification carried the directory flag.
C10_Witness ==
  /\ pc = "process"
  /\ call.caller = "consumer"
  /\ call.fn = "process_file"
  /\ ghost[call.path].rel_first_flag
  /\ ~ghost[call.path].rel_last_flag


\* the calls of the renamer there are to speak of: the one in progress and
\* the one that returned last
Calls == {f \in {call, result} : f.fn # "none"}

\* the last call has returned and no other has begun
Returned(f) == f = result /\ call.fn = "none"

\* C2: no call of rename_file or rename_directory replaces or destroys an
\* entry that was at the target path, whatever other actors do.
C2_NeverOverwrites == \A f \in Calls : ~f.replaced

\* year is a real 4-digit value
IsRealYear(year) == Len(year) = 4 /\ \A i \in 1..4 : year[i] \in Digits

Actionable(d) == d.title # NoStr /\ (IsRealYear(d.year) \/ d.type = "tv")

\* C3: rename_file and rename_directory are called only with a descriptor
\* that has a title and a real year or the kind tv, whichever source made
\* the descriptor.
C3_ActionabilityGate ==
  \A f \in Calls : f.renamer # "none" => Actionable(f.media_info)

\* C4: a call of rename_file or rename_directory that has not moved the
\* entry has changed nothing on disk, and returns the original path; the
\* new path is returned when the move has succeeded, and only then.
C4_FailureAtomicity ==
  /\ (call.renamer # "none" /\ ~call.moved) => fs = fs_expect
  /\ (Returned(result) /\ result.renamer # "none") =>
       /\ ~result.moved => (fs = fs_expect /\ result.ret = result.path)
       /\ result.moved => result.ret = result.new_path
       /\ (result.ret = result.new_path /\ result.new_path # result.path)
            => result.moved

\* C4 witness: rename_directory has returned after three failed moves,
\* the error logged.
C4_Witness ==
  /\ Returned(result)
  /\ result.renamer = "rename_directory"
  /\ ~result.moved
  /\ result.attempts = max_retries
  /\ result.err_logged
  /\ Exists(fs, result.path)

\* C5: process_directory called on an existing directory whose base name
\* is an excluded name returns the path it was given, having classified
\* nothing, called no renamer and changed nothing on disk, with the naming
\* override enabled or not.
C5_Denylist ==
  \A f \in Calls :
    (f.fn = "process_directory" /\ f.existed
       /\ BaseName(f.path) \in ExcludedDirs) =>
      /\ ~f.classified
      /\ f.renamer = "none"
      /\ ~f.moved
      /\ f.ret = f.path
      /\ fs = fs_expect

\* C5 witness: an excluded directory with a file in it, the naming
\* override enabled, has gone through process_directory.
C5_Witness ==
  /\ Returned(result)
  /\ result.fn = "process_directory"
  /\ result.existed
  /\ BaseName(result.path) \in ExcludedDirs
  /\ ai_enabled
  /\ Below(fs, result.path) # {}

\* the name planned without the naming override
PlanName(f, original_name) ==
  IF f.renamer = "rename_file"
  THEN PlanFileName(original_name, f.media_info, FALSE, NoStr)
  ELSE PlanDirName(original_name, f.media_info, FALSE, NoStr)

\* C6: with the naming override disabled, the name planned from a planned
\* name and the same descriptor is that name again; and the renamer called
\* on the path it has renamed to, with the same descriptor, returns that
\* path without a move attempt and without a change on disk.
C6_NamingIdempotent ==
  ~ai_enabled =>
    /\ \A f \in Calls :
         f.renamer # "none" =>
           PlanName(f, BaseName(f.new_path)) = BaseName(f.new_path)
    /\ \A f \in Calls :
         f.second =>
           /\ f.new_path = f.path
           /\ f.attempts = 0
           /\ ~f.moved
           /\ fs = fs_expect
           /\ Returned(f) => f.ret = f.path

\* C6 witness: a file renamed after its directory, whose title has a dot
\* in it, has gone through rename_file a second time.
C6_Witness ==
  /\ ~ai_enabled
  /\ Returned(result)
  /\ result.second
  /\ result.renamer = "rename_file"
  /\ \E i \in 1..Len(result.media_info.title) :
       result.media_info.title[i] = "."

\* C9: process_file on a media file consults the directory name exactly
\* when the file name gives no descriptor (as the rules decide it, the
\* naming override disabled); when the directory gives one and the file
\* name holds an episode number, whatever its value, the descriptor handed
\* to rename_file is the directory's with that episode and the kind tv;
\* when neither name gives one, no renamer is called and the file's own
\* path is returned.
C9_FallbackOrder ==
  \A f \in Calls :
    (f.fn = "process_file" /\ f.classified) =>
      LET filename == BaseName(f.path)
          episode_num == extract_episode_number(filename)
      IN  /\ ~ai_enabled =>
               (f.dir_consulted <=>
                  extract_media_info(filename, FALSE, NoInfo) = NoInfo)
          /\ (f.dir_consulted /\ f.dir_info # NoInfo
                 /\ episode_num # NoneInt) =>
               /\ f.renamer = "rename_file"
               /\ f.media_info = [f.dir_info EXCEPT !.episode = episode_num,
                                                     !.type = "tv"]
          /\ (f.dir_consulted /\ f.dir_info = NoInfo) =>
               /\ f.renamer = "none"
               /\ f.ret = f.path

\* C11: once stop() has returned the thread of _process_queue has ended:
\* no tick is in flight, no released path waits in a batch and no call of
\* process_directory or process_file is in progress or about to begin.
C11_StopWaitsForTick ==
  stop_pc = "returned" =>
    /\ pc = "exited"
    /\ to_process = << >>
    /\ call = IdleCall

\* C12: rename_directory uses at most max_retries attempts, a missing
\* source or a move call each counting as one, and rename_file at most one
\* move call; a call of rename_directory that has used all its attempts
\* without moving, for a failed move or for a missing source, has logged
\* an error and returns the original path.
C12_BoundedRetry ==
  \A f \in Calls :
    /\ f.attempts <= max_retries
    /\ f.retry <= max_retries
    /\ f.renamer = "rename_file" => (f.attempts <= 1 /\ f.retry = 0)
    /\ (Returned(f) /\ f.renamer = "rename_directory" /\ ~f.moved
          /\ f.attempts = max_retries) =>
         (f.err_logged /\ f.ret = f.path)

=============================================================================
